---------------------------- MODULE Spec2Model ----------------------------
(***************************************************************************)
(* A model of the NeRF renderer (Implementation_code/renderer.py) and of   *)
(* the spherical-harmonics evaluator (spherical_harmonics.py).             *)
(*                                                                         *)
(* The module holds one state machine per component; each has its own     *)
(* specification (SpecSH, ...) that leaves the variables of the other      *)
(* components at their idle values.                                        *)
(***************************************************************************)
EXTENDS Integers, Sequences, FiniteSets, TLC

VARIABLES
    \* ---- evaluate_spherical_harmonics(degree, sh_coeffs, viewdirs) ----
    sh_degree,      \* the degree argument
    sh_ncoef,       \* sh_coeffs.shape[-1]
    sh_pc,          \* "call" | "returned" | "error"
    sh_read,        \* the coefficient indices read while accumulating result
    \* ---- sample_pdf(bins, weights, n_samples, det), one row, one quantile ----
    pdf_bins,       \* bins, a function on 0..W
    pdf_weights,    \* weights, a function on 0..W-1, in units of 1e-5
    pdf_u,          \* the quantile u = pdf_u / UDen
    pdf_pc,         \* "call" | "returned"
    pdf_below,      \* below, the lower bracket index
    pdf_above,      \* above, the upper bracket index
    pdf_sample,     \* samples as a fraction <<numerator, denominator>>
    \* ---- NeRFRenderer.run, compositing of one ray (lines 244-265) ----
    run_z_vals,     \* z_vals of the ray, a function on 0..n-1, non-decreasing
    run_sample_dist,\* sample_dist = (fars - nears) / num_steps
    run_sigma,      \* density_outputs['sigma'] of the ray, on 0..n-1
    run_pc,         \* "composite" | "returned"
    run_weights,    \* weights, numerators over FixOne^n
    run_weights_sum,\* weights_sum, numerator over FixOne^n
    \* ---- NeRFRenderer, the acceleration state (cuda_ray = True) ----
    density_grid,   \* self.density_grid, cell -> density in units 1/GridOne
    density_bitfield, \* self.density_bitfield, cell -> bit
    mean_density,   \* self.mean_density, as the sum of the clamped grid
                    \* (the mean is mean_density / grid_cells)
    iter_density,   \* self.iter_density
    step_counter,   \* self.step_counter[:, 0], slot -> count
    mean_count,     \* self.mean_count
    local_step,     \* self.local_step
    last_call,      \* history: the last call made on the renderer
    idem,           \* history: the update being repeated (SpecIdem)
    \* ---- NeRFRenderer.render / run_cuda, inference (self.training False) ----
    rays,           \* rays_o, rays_d of the batch (B = 1): index -> ray
    max_steps,      \* kwargs['max_steps']
    max_ray_batch,  \* max_ray_batch
    pc,             \* "idle" | "chunk" | "while" | "march" | "exit" | "raised"
    staged,         \* the call takes the chunked branch (line 604)
    head,           \* head of the chunk loop
    tail,           \* tail of the chunk in flight
    results,        \* depth, image, mask of the render call, per ray
    N,              \* N of run_cuda: rays of the chunk in flight
    n_alive,        \* n_alive
    alive_counter,  \* alive_counter[0]
    rays_alive,     \* rays_alive[2][N]: worklists of chunk-local ray indices
    rays_t,         \* rays_t[2][N]
    step,           \* step
    loop_i,         \* i
    weights_sum,    \* weights_sum[N], numerators over TOne
    depth,          \* depth[N], numerators over TOne
    image,          \* image[N], numerators over TOne
    gens_read,      \* history: iter_density at each march of this render call
    samples,        \* history: samples marched per ray in this render call
    alive_before,   \* history: n_alive before the last count of alive rays
    finished,       \* history: staged -> what the last such call returned
    chunks,         \* history: the slices [head, tail) the staged call wrote
    worklog,        \* history: per worklist buffer, the iteration that filled
                    \* it, the positions written and the iteration that
                    \* marched it; the buffer last compacted from, last marched
    \* ---- histories of the grid updates and of the training calls ----
    observed,       \* history: updates since construction or reset, and the
                    \* arguments and samples of the last update_extra_state
    training,       \* self.training
    train_log,      \* history: slots written by the call in flight, calls
                    \* since the last update, and what the last update saw
    \* ---- NeRFRenderer.run, the merge of uniform and resampled samples ----
    merge_pc,       \* "off" | "sampled" | "merged"
    merge_z_vals,   \* z_vals of one ray
    merge_new_z,    \* new_z_vals of the ray
    merge_xyzs,     \* xyzs: per position, the sample the point was made for
    merge_density,  \* density_outputs[k]: per position, the output
    merge_index     \* z_index

shVars == <<sh_degree, sh_ncoef, sh_pc, sh_read>>
pdfVars == <<pdf_bins, pdf_weights, pdf_u, pdf_pc, pdf_below, pdf_above, pdf_sample>>
runVars == <<run_z_vals, run_sample_dist, run_sigma, run_pc, run_weights,
             run_weights_sum>>
gridVars == <<density_grid, density_bitfield, mean_density, iter_density,
              step_counter, mean_count, local_step, last_call>>

renderVars == <<rays, max_steps, max_ray_batch, pc, staged, head, tail, results,
                N, n_alive, alive_counter, rays_alive, rays_t, step, loop_i,
                weights_sum, depth, image, gens_read, samples, alive_before,
                finished, chunks, worklog>>

mergeVars == <<merge_pc, merge_z_vals, merge_new_z, merge_xyzs, merge_density,
               merge_index>>

extraVars == <<observed, training, train_log, mergeVars>>

vars == <<shVars, pdfVars, runVars, gridVars, idem, renderVars, extraVars>>

\* No update observed, inference mode, nothing logged.
ObsNone == [n |-> 0, seen |-> FALSE]
LogNone == [logging |-> FALSE]
MergeIdle ==
    /\ merge_pc = "off"
    /\ merge_z_vals = <<>>
    /\ merge_new_z = <<>>
    /\ merge_xyzs = <<>>
    /\ merge_density = <<>>
    /\ merge_index = <<>>
ExtraIdle ==
    /\ observed = ObsNone
    /\ training = FALSE
    /\ train_log = LogNone
    /\ MergeIdle

-----------------------------------------------------------------------------
(* Generic helpers *)

Max(a, b) == IF a >= b THEN a ELSE b
Min(a, b) == IF a <= b THEN a ELSE b

-----------------------------------------------------------------------------
(***************************************************************************)
(* spherical_harmonics.py                                                  *)
(***************************************************************************)

\* Bounds of the arguments tried: degree in -MaxDegree..MaxDegree.
MaxDegree == 5
MaxCoeffs == 26

\* first assertion: 4 > degree >= 0
ShDegreeOkOffByOne(degree) == 4 >= degree /\ degree >= 0
ShDegreeOk(degree) == 4 > degree /\ degree >= 0

\* second assertion: (degree + 1) ** 2 == sh_coeffs.shape[-1]
ShCountOk(degree, ncoef) == (degree + 1) * (degree + 1) = ncoef

\* The coefficient indices the nested "if degree > k" bands read.
ShBand(degree) ==
    {0}
    \cup (IF degree > 0 THEN 1..3 ELSE {})
    \cup (IF degree > 1 THEN 4..8 ELSE {})
    \cup (IF degree > 2 THEN 9..15 ELSE {})
    \cup (IF degree > 3 THEN 16..24 ELSE {})

ShInit ==
    /\ sh_degree \in (-MaxDegree)..MaxDegree
    /\ sh_ncoef \in 0..MaxCoeffs
    /\ sh_pc = "call"
    /\ sh_read = {}

ShIdle ==
    /\ sh_degree = 0
    /\ sh_ncoef = 0
    /\ sh_pc = "idle"
    /\ sh_read = {}

\* One call: both assertions first, then the accumulation of the bands.
\* Reading an index >= ncoef is an IndexError, also reported as "error".
evaluate_spherical_harmonics ==
    /\ sh_pc = "call"
    /\ IF ~ShDegreeOk(sh_degree) \/ ~ShCountOk(sh_degree, sh_ncoef)
       THEN /\ sh_pc' = "error"
            /\ sh_read' = {}
       ELSE /\ sh_read' = {k \in ShBand(sh_degree) : k < sh_ncoef}
            /\ sh_pc' = IF \A k \in ShBand(sh_degree) : k < sh_ncoef
                        THEN "returned" ELSE "error"
    /\ UNCHANGED <<sh_degree, sh_ncoef>>

ShNext == evaluate_spherical_harmonics /\ UNCHANGED <<pdfVars, runVars, gridVars, idem, renderVars, extraVars>>

\* C2: the call fails, having read no coefficient, exactly when degree is
\* outside 0..3 or the coefficient count differs from (degree+1)^2; every
\* other (degree, count) pair returns a result.
C2_FailsExactlyOnInvalidInput ==
    sh_pc \in {"returned", "error"} =>
        LET invalid == \/ sh_degree < 0
                       \/ sh_degree > 3
                       \/ sh_ncoef # (sh_degree + 1) * (sh_degree + 1)
        IN  /\ (sh_pc = "error") <=> invalid
            /\ sh_pc = "error" => sh_read = {}
            /\ sh_pc = "returned" => sh_read = 0..(sh_ncoef - 1)

\* A valid degree-3 call has returned, and so has failed a degree-4 call
\* with the 25 coefficients a fifth band would need.
C2_Witness ==
    \/ sh_pc = "returned" /\ sh_degree = 3 /\ sh_ncoef = 16
    \/ sh_pc = "error" /\ sh_degree = 4 /\ sh_ncoef = 25

-----------------------------------------------------------------------------
(***************************************************************************)
(* renderer.py: sample_pdf, for one row of bins/weights and one quantile.  *)
(* Weights are counted in units of 1e-5, so "weights + 1e-5" adds one      *)
(* unit; the pdf and cdf are fractions over the weight total, the quantile *)
(* is pdf_u / UDen, and every comparison is made exactly by cross          *)
(* multiplication.                                                         *)
(***************************************************************************)

\* Bounds: W <= MaxW weights (W+1 bins), bins in 0..MaxBin, u in k/UDen.
MaxW == 3
MaxBin == 1
UDen == 4

\* 1e-5 of line 13 is one weight unit, so 1.0 is WEIGHT_EPS_INV units.
WEIGHT_EPS_INV == 100000
\* 1e-5 of line 34 is 1 / DENOM_EPS_INV.
DENOM_EPS_INV == 100000

\* The weights tried: 0, 1e-5, 1.0.
PdfWeightValues == {0, 1, WEIGHT_EPS_INV}

RECURSIVE SumTo(_, _)
\* f[0] + ... + f[n-1]
SumTo(f, n) == IF n <= 0 THEN 0 ELSE SumTo(f, n - 1) + f[n - 1]

\* weights = weights + 1e-5
PdfFloor(weights) == [i \in DOMAIN weights |-> weights[i] + 1]

\* torch.sum(weights, -1): the denominator of pdf and cdf.  With no weight
\* at all the cdf is the lone exact 0 of the torch.cat, written 0 / 1.
PdfTotal(weights) ==
    Max(1, SumTo(PdfFloor(weights), Cardinality(DOMAIN weights)))

\* cdf = cat([0], cumsum(pdf)): numerators over PdfTotal, on 0..W
PdfCdf(weights) ==
    [j \in 0..Cardinality(DOMAIN weights) |-> SumTo(PdfFloor(weights), j)]

\* torch.searchsorted(cdf, u, right=True): the number of entries <= u,
\* with cdf[j] / total <= u / UDen compared as cdf[j] * UDen <= u * total.
PdfSearchSorted(cdf, total, u) ==
    Cardinality({j \in DOMAIN cdf : cdf[j] * UDen <= u * total})

\* below = max(0, inds - 1)
PdfBelow(inds) == Max(0, inds - 1)
\* above = min(cdf.shape[-1] - 1, inds)
PdfAbove(cdf, inds) == Min(Cardinality(DOMAIN cdf) - 1, inds)

\* denom < 1e-5, for denom = dn / total
PdfDegenerate(dn, total) == dn <= (total - 1) \div DENOM_EPS_INV

\* t = (u - cdf_g[0]) / denom as <<numerator, denominator>>; denom is
\* replaced by 1 when it is below 1e-5.
PdfTNoSubtract(cb, ca, total, u) ==
    IF PdfDegenerate(ca - cb, total)
    THEN <<u * total, UDen * total>>
    ELSE <<u * total, UDen * (ca - cb)>>
PdfT(cb, ca, total, u) ==
    IF PdfDegenerate(ca - cb, total)
    THEN <<u * total - cb * UDen, UDen * total>>
    ELSE <<u * total - cb * UDen, UDen * (ca - cb)>>

\* samples = bins_g[0] + t * (bins_g[1] - bins_g[0])
PdfInterpolate(bb, ba, t) == <<bb * t[2] + t[1] * (ba - bb), t[2]>>

PdfRows ==
    UNION {[bins : [0..w -> 0..MaxBin],
            weights : [0..(w - 1) -> PdfWeightValues]] : w \in 0..MaxW}

PdfInit ==
    /\ \E r \in PdfRows : pdf_bins = r.bins /\ pdf_weights = r.weights
    /\ pdf_u \in 0..(UDen - 1)
    /\ pdf_pc = "call"
    /\ pdf_below = 0
    /\ pdf_above = 0
    /\ pdf_sample = <<0, 1>>

PdfIdle ==
    /\ pdf_bins = <<>>
    /\ pdf_weights = <<>>
    /\ pdf_u = 0
    /\ pdf_pc = "idle"
    /\ pdf_below = 0
    /\ pdf_above = 0
    /\ pdf_sample = <<0, 1>>

sample_pdf ==
    /\ pdf_pc = "call"
    /\ LET total == PdfTotal(pdf_weights)
           cdf   == PdfCdf(pdf_weights)
           inds  == PdfSearchSorted(cdf, total, pdf_u)
           below == PdfBelow(inds)
           above == PdfAbove(cdf, inds)
           t     == PdfT(cdf[below], cdf[above], total, pdf_u)
       IN  /\ pdf_below' = below
           /\ pdf_above' = above
           /\ pdf_sample' = PdfInterpolate(pdf_bins[below], pdf_bins[above], t)
    /\ pdf_pc' = "returned"
    /\ UNCHANGED <<pdf_bins, pdf_weights, pdf_u>>

PdfNext == sample_pdf /\ UNCHANGED <<shVars, runVars, gridVars, idem, renderVars, extraVars>>

PdfMinBin == CHOOSE m \in 0..MaxBin :
    /\ \E i \in DOMAIN pdf_bins : pdf_bins[i] = m
    /\ \A i \in DOMAIN pdf_bins : pdf_bins[i] >= m
PdfMaxBin == CHOOSE m \in 0..MaxBin :
    /\ \E i \in DOMAIN pdf_bins : pdf_bins[i] = m
    /\ \A i \in DOMAIN pdf_bins : pdf_bins[i] <= m

\* C10: for non-negative weights (all-zero included) and u in [0,1), the
\* bracket indices satisfy below <= above and are indices of bins, and the
\* sample is finite and lies in [min(bins), max(bins)].
C10_SampleInsideBins ==
    pdf_pc = "returned" =>
        /\ pdf_below <= pdf_above
        /\ pdf_below \in DOMAIN pdf_bins
        /\ pdf_above \in DOMAIN pdf_bins
        /\ pdf_sample[2] > 0
        /\ PdfMinBin * pdf_sample[2] <= pdf_sample[1]
        /\ pdf_sample[1] <= PdfMaxBin * pdf_sample[2]

\* The quantile 1/2 falls in the near-zero cdf span of a zero weight between
\* two weights of 1.0 (the degenerate branch), and the sample lies strictly
\* between two different bins.
C10_Witness ==
    /\ pdf_pc = "returned"
    /\ DOMAIN pdf_weights = 0..2
    /\ pdf_weights[1] = 0
    /\ pdf_below = 1 /\ pdf_above = 2
    /\ PdfDegenerate(PdfCdf(pdf_weights)[2] - PdfCdf(pdf_weights)[1],
                     PdfTotal(pdf_weights))
    /\ pdf_bins[1] # pdf_bins[2]
    /\ pdf_sample[1] # pdf_bins[1] * pdf_sample[2]

-----------------------------------------------------------------------------
(***************************************************************************)
(* renderer.py: NeRFRenderer.run, the compositing weights of one ray.      *)
(*                                                                         *)
(* Arithmetic is exact.  The exponent delta * density_scale * sigma is     *)
(* counted in units of ln 2, so that alpha = 1 - exp(-x) = 1 - 2^(-x); as  *)
(* in floating point, alpha is exactly 1 from some exponent on (SatExp).   *)
(* The 1e-15 of alphas_shifted is the fraction 2^(-EpsBits).  A quantity   *)
(* of sample i is a numerator over FixOne^i.                               *)
(***************************************************************************)

\* Bounds: samples per ray, largest z, largest sigma.
MaxSamples == 3
MaxZ == 2
MaxSigma == 2
\* alpha = 1 exactly when the exponent is >= SatExp
SatExp == 2
\* 1e-15 is modelled as 2^(-EpsBits)
EpsBits == 3

\* self.density_scale (the constructor's default)
density_scale == 1

RECURSIVE Pow(_, _)
Pow(b, e) == IF e <= 0 THEN 1 ELSE b * Pow(b, e - 1)

\* The fixed-point one: the common denominator of alpha and of eps.
FixOne == Pow(2, Max(SatExp, EpsBits))
RunEps == FixOne \div Pow(2, EpsBits)

\* deltas = cat(z_vals[1:] - z_vals[:-1], sample_dist)
RunDeltas(z, sd) ==
    [i \in DOMAIN z |-> IF i + 1 \in DOMAIN z THEN z[i + 1] - z[i] ELSE sd]

\* alphas = 1 - exp(-deltas * density_scale * sigma), numerator over FixOne
RunAlphaIgnoringDelta(delta, sigma) ==
    LET x == density_scale * sigma
    IN  IF x >= SatExp THEN FixOne ELSE FixOne - FixOne \div Pow(2, x)
RunAlpha(delta, sigma) ==
    LET x == delta * density_scale * sigma
    IN  IF x >= SatExp THEN FixOne ELSE FixOne - FixOne \div Pow(2, x)

RunAlphas(z, sd, sigma) ==
    [i \in DOMAIN z |-> RunAlpha(RunDeltas(z, sd)[i], sigma[i])]

\* alphas_shifted = cat(1, 1 - alphas + 1e-15), numerators over FixOne
RunShifted(alphas) ==
    [i \in 0..Cardinality(DOMAIN alphas) |->
        IF i = 0 THEN FixOne ELSE FixOne - alphas[i - 1] + RunEps]

RECURSIVE RunCumprod(_, _)
\* torch.cumprod(alphas_shifted)[i], as a numerator over FixOne^i:
\* the leading 1 contributes no factor.
RunCumprod(shifted, i) ==
    IF i <= 0 THEN 1 ELSE RunCumprod(shifted, i - 1) * shifted[i]

\* weights = alphas * cumprod(alphas_shifted)[:-1]: weights[i] as a
\* numerator over FixOne^(i+1), brought to the denominator FixOne^n.
RunWeights(alphas) ==
    LET n == Cardinality(DOMAIN alphas)
    IN  [i \in DOMAIN alphas |->
            alphas[i] * RunCumprod(RunShifted(alphas), i)
                      * Pow(FixOne, n - 1 - i)]

\* Non-decreasing z_vals (linspace, or the sorted merge) of n samples.
RunZVals(n) ==
    {z \in [0..(n - 1) -> 0..MaxZ] :
        \A i \in 0..(n - 2) : z[i] <= z[i + 1]}

\* sample_dist is 0 exactly when nears = fars, that is when the first and
\* the last z_vals coincide.
RunInit ==
    /\ \E n \in 1..MaxSamples :
        /\ run_z_vals \in RunZVals(n)
        /\ run_sigma \in [0..(n - 1) -> 0..MaxSigma]
        /\ run_sample_dist =
              IF run_z_vals[0] = run_z_vals[n - 1] THEN 0 ELSE 1
    /\ run_pc = "composite"
    /\ run_weights = <<>>
    /\ run_weights_sum = 0

RunIdle ==
    /\ run_z_vals = <<>>
    /\ run_sigma = <<>>
    /\ run_sample_dist = 0
    /\ run_pc = "idle"
    /\ run_weights = <<>>
    /\ run_weights_sum = 0

\* Lines 244-248 and 265.
run_composite ==
    /\ run_pc = "composite"
    /\ LET weights == RunWeights(RunAlphas(run_z_vals, run_sample_dist, run_sigma))
       IN  /\ run_weights' = weights
           /\ run_weights_sum' = SumTo(weights, Cardinality(DOMAIN weights))
    /\ run_pc' = "returned"
    /\ UNCHANGED <<run_z_vals, run_sample_dist, run_sigma>>

RunNext == run_composite /\ UNCHANGED <<shVars, pdfVars, gridVars, idem, renderVars, extraVars>>

RunN == Cardinality(DOMAIN run_z_vals)

\* C9 as stated: the weights sum to at most 1, and the sum is 0 exactly
\* when every sigma is 0.
C9_SumAtMostOneZeroIffNoDensity ==
    run_pc = "returned" =>
        /\ run_weights_sum <= Pow(FixOne, RunN)
        /\ (run_weights_sum = 0) <=> (\A i \in DOMAIN run_sigma : run_sigma[i] = 0)

\* C9 as amended: the weights sum to at most (1 + eps)^n, and the sum is 0
\* exactly when every exponent delta_i * density_scale * sigma_i is 0.
C9_SumBoundedZeroIffNoAlpha ==
    run_pc = "returned" =>
        /\ run_weights_sum <= Pow(FixOne + RunEps, RunN)
        /\ (run_weights_sum = 0) <=>
              (\A i \in DOMAIN run_sigma :
                  RunDeltas(run_z_vals, run_sample_dist)[i] * density_scale
                      * run_sigma[i] = 0)

\* A ray with a saturated sample followed by a dense one: the sum exceeds 1.
C9_Witness ==
    /\ run_pc = "returned"
    /\ RunN = 3
    /\ run_weights_sum > Pow(FixOne, RunN)
    /\ \E i \in DOMAIN run_sigma :
          /\ run_sigma[i] > 0
          /\ RunDeltas(run_z_vals, run_sample_dist)[i] = 0

-----------------------------------------------------------------------------
(***************************************************************************)
(* renderer.py: the density grid, its bitfield and the step counter of a   *)
(* renderer built with cuda_ray = True and bound = 1 (one cascade).        *)
(*                                                                         *)
(* Densities are fixed-point numbers in units of 1 / GridOne, so the       *)
(* marker -1 of an untrained cell is -GridOne.  decay is a numerator over  *)
(* GridOne; a product is rounded down to the unit.                         *)
(***************************************************************************)

\* self.grid_size ** 3, the cells of the cascade (128 ** 3 in the source)
grid_cells == 4
\* the fixed-point one of densities and of decay
GridOne == 2
\* updates allowed in one behaviour
MaxIter == 33
\* "16 is hardcoded for averaging": slots of step_counter
COUNTER_SLOTS == 16
\* full updates while iter_density < 16
WARMUP_ITERS == 16
\* updates made by initialize_states: 1 + 30
INIT_UPDATES == 31
\* self.density_thresh = 0.01 = 1 / DENSITY_THRESH_INV
DENSITY_THRESH_INV == 100

Cells == 0..(grid_cells - 1)
Slots == 0..(COUNTER_SLOTS - 1)

\* The marker of an untrained cell.
Untrained == -GridOne

\* self.density(...)['sigma'] * self.density_scale at a cell: 0 or 1.0
GridSigmas == {0, GridOne}
\* The density fields tried: density 1.0 in the first k cells, k <= MaxDense,
\* and 0 elsewhere.
MaxDense == 1
GridFields ==
    {[c \in Cells |-> IF c < k THEN GridOne ELSE 0] : k \in 0..MaxDense}
\* The decay arguments tried: 0, 0.5, 1
Decays == {0, GridOne \div 2, GridOne}

\* Construction (cuda_ray branch of __init__).
GridInit ==
    /\ density_grid = [c \in Cells |-> 0]
    /\ density_bitfield = [c \in Cells |-> FALSE]
    /\ mean_density = 0
    /\ iter_density = 0
    /\ step_counter = [k \in Slots |-> 0]
    /\ mean_count = 0
    /\ local_step = 0
    /\ last_call = [op |-> "__init__"]

\* reset_extra_state: the bitfield is not touched.
reset_extra_state ==
    /\ density_grid' = [c \in Cells |-> 0]
    /\ mean_density' = 0
    /\ iter_density' = 0
    /\ step_counter' = [k \in Slots |-> 0]
    /\ mean_count' = 0
    /\ local_step' = 0
    /\ last_call' = [op |-> "reset_extra_state"]
    /\ UNCHANGED density_bitfield

\* mark_untrained_grid: seen is the set of cells inside the frustum of at
\* least one pose (count > 0); every other cell becomes -1.
mark_untrained_grid(seen) ==
    /\ density_grid' = [c \in Cells |->
                           IF c \in seen THEN density_grid[c] ELSE Untrained]
    /\ last_call' = [op |-> "mark_untrained_grid"]
    /\ UNCHANGED <<density_bitfield, mean_density, iter_density, step_counter,
                   mean_count, local_step>>

\* The update is a full one.
FullUpdateOneLate(iter, force_full_update) ==
    iter <= WARMUP_ITERS \/ force_full_update
FullUpdate(iter, force_full_update) ==
    iter < WARMUP_ITERS \/ force_full_update

\* The cells a partial update samples: grid_size ** 3 // 4 random draws of
\* all cells and, when a cell is occupied, as many draws of the occupied
\* cells; rnd and occ are the cells drawn.
PartialDraws(grid) ==
    LET n        == grid_cells \div 4
        occupied == {c \in Cells : grid[c] > 0}
        some(S)  == {D \in SUBSET S : D # {} /\ Cardinality(D) <= n}
    IN  IF occupied = {}
        THEN some(Cells)
        ELSE {R \cup O : R \in some(Cells), O \in some(occupied)}

\* tmp_grid: -1 where nothing was sampled
TmpGridZeroFilled(sampled, sigmas) ==
    [c \in Cells |-> IF c \in sampled THEN sigmas[c] ELSE 0]
TmpGrid(sampled, sigmas) ==
    [c \in Cells |-> IF c \in sampled THEN sigmas[c] ELSE Untrained]

\* valid_mask, at cell c
ValidMaskIgnoringOld(grid, tmp, force_full_grid, c) ==
    force_full_grid \/ tmp[c] >= 0
ValidMask(grid, tmp, force_full_grid, c) ==
    force_full_grid \/ (grid[c] >= 0 /\ tmp[c] >= 0)

\* density_grid[valid_mask] = maximum(density_grid[valid_mask] * decay,
\*                                    tmp_grid[valid_mask])
CombineAccumulating(grid, tmp, decay, force_full_grid) ==
    [c \in Cells |->
        IF ValidMask(grid, tmp, force_full_grid, c)
        THEN grid[c] + tmp[c]
        ELSE grid[c]]
Combine(grid, tmp, decay, force_full_grid) ==
    [c \in Cells |->
        IF ValidMask(grid, tmp, force_full_grid, c)
        THEN Max((grid[c] * decay) \div GridOne, tmp[c])
        ELSE grid[c]]

\* torch.mean(density_grid.clamp(min=0)), as the sum over the cells
MeanDensity(grid) ==
    SumTo([c \in Cells |-> Max(grid[c], 0)], grid_cells)

\* packbits(density_grid, min(mean_density, density_thresh)): the bit of a
\* cell is set iff its value exceeds the threshold, that is iff it exceeds
\* the mean or exceeds density_thresh.
PackBits(grid, mean) ==
    [c \in Cells |->
        \/ grid[c] * grid_cells > mean
        \/ grid[c] * DENSITY_THRESH_INV > GridOne]

\* int(step_counter[:total_step, 0].sum() / total_step), lines 591-593
MeanCountAllSlots(counter, count, lstep) ==
    LET total_step == COUNTER_SLOTS
    IN  IF lstep > 0
        THEN SumTo(counter, total_step) \div total_step
        ELSE count
MeanCount(counter, count, lstep) ==
    LET total_step == Min(COUNTER_SLOTS, lstep)
    IN  IF total_step > 0
        THEN SumTo(counter, total_step) \div total_step
        ELSE count

\* The tmp_grid of an update made now.
TmpGridNow(force_full_update, sigmas, sampled) ==
    IF FullUpdate(iter_density, force_full_update)
    THEN TmpGrid(Cells, sigmas)
    ELSE TmpGrid(sampled, sigmas)

\* The draws an update made now can make.
DrawsNow(force_full_update) ==
    IF FullUpdate(iter_density, force_full_update)
    THEN {Cells} ELSE PartialDraws(density_grid)

\* update_extra_state(decay, S, force_full_update, force_full_grid);
\* sigmas are the densities the field returns at the cells, sampled the
\* cells a partial update draws.
update_extra_state(decay, force_full_update, force_full_grid, sigmas, sampled) ==
    /\ iter_density < MaxIter
    /\ LET tmp_grid == TmpGridNow(force_full_update, sigmas, sampled)
           grid     == Combine(density_grid, tmp_grid, decay, force_full_grid)
       IN  /\ density_grid' = grid
           /\ mean_density' = MeanDensity(density_grid')
           /\ density_bitfield' = PackBits(density_grid', mean_density')
    /\ iter_density' = iter_density + 1
    /\ mean_count' = MeanCount(step_counter, mean_count, local_step)
    /\ local_step' = 0
    /\ last_call' = [op |-> "update_extra_state",
                     force_full_grid |-> force_full_grid]
    /\ UNCHANGED step_counter

\* initialize_states: one forced update with decay 0, then 30 forced
\* updates with decay 1.  Forced updates are full, so the grid ends as the
\* cellwise maximum of the 31 samples: first stands for the first sample,
\* rest for the maximum of the other 30.
initialize_states(first, rest) ==
    /\ iter_density + INIT_UPDATES <= MaxIter
    /\ LET g1   == Combine(density_grid, TmpGrid(Cells, first), 0, TRUE)
           grid == Combine(g1, TmpGrid(Cells, rest), GridOne, TRUE)
       IN  /\ density_grid' = grid
           /\ mean_density' = MeanDensity(density_grid')
           /\ density_bitfield' = PackBits(density_grid', mean_density')
    /\ iter_density' = iter_density + INIT_UPDATES
    /\ mean_count' = MeanCount(step_counter, mean_count, local_step)
    /\ local_step' = 0
    /\ last_call' = [op |-> "initialize_states"]
    /\ UNCHANGED step_counter

GridIdle ==
    /\ density_grid = <<>>
    /\ density_bitfield = <<>>
    /\ mean_density = 0
    /\ iter_density = 0
    /\ step_counter = <<>>
    /\ mean_count = 0
    /\ local_step = 0
    /\ last_call = [op |-> "idle"]

GridUpdate ==
    /\ \E decay \in Decays, ffu \in BOOLEAN, ffg \in BOOLEAN,
          sigmas \in GridFields :
          \E sampled \in DrawsNow(ffu) :
              update_extra_state(decay, ffu, ffg, sigmas, sampled)
    /\ UNCHANGED <<shVars, pdfVars, runVars, idem, renderVars, extraVars>>

GridMark ==
    /\ \E seen \in SUBSET Cells : mark_untrained_grid(seen)
    /\ UNCHANGED <<shVars, pdfVars, runVars, idem, renderVars, extraVars>>

GridReset ==
    /\ reset_extra_state
    /\ UNCHANGED <<shVars, pdfVars, runVars, idem, renderVars, extraVars>>

GridInitialize ==
    /\ \E first \in GridFields, rest \in GridFields :
          initialize_states(first, rest)
    /\ UNCHANGED <<shVars, pdfVars, runVars, idem, renderVars, extraVars>>

GridNext == GridUpdate \/ GridMark \/ GridReset \/ GridInitialize

\* C6 as stated: a cell that holds -1 (only mark_untrained_grid writes it)
\* holds -1 after every later call.
C6_UntrainedForever ==
    [][\A c \in Cells :
          density_grid[c] = Untrained => density_grid'[c] = Untrained]_vars

\* C6 as amended: a cell that holds -1 still holds it after an
\* update_extra_state call made without force_full_grid and after a
\* mark_untrained_grid call.
C6_UntrainedUnlessForced ==
    [][(\/ /\ last_call'.op = "update_extra_state"
           /\ ~last_call'.force_full_grid
        \/ last_call'.op = "mark_untrained_grid")
       => \A c \in Cells :
             density_grid[c] = Untrained => density_grid'[c] = Untrained]_vars

\* After the warm-up, an update without force_full_grid has just run on a
\* grid that holds an untrained cell next to an occupied one.
C6_Witness ==
    /\ last_call.op = "update_extra_state"
    /\ ~last_call.force_full_grid
    /\ iter_density > WARMUP_ITERS
    /\ \E c \in Cells : density_grid[c] = Untrained
    /\ \E c \in Cells : density_grid[c] > 0

-----------------------------------------------------------------------------
(***************************************************************************)
(* update_extra_state repeated: after any history of calls, one update     *)
(* with decay 0 is made (IdemFirst) and then made again with the same      *)
(* flags and the same sampled values (IdemSecond).                         *)
(***************************************************************************)

IdemNone == [stage |-> 0]

\* Calls of update_extra_state / initialize_states before the repeated one
MaxPrior == 1

IdemPriorUpdate ==
    /\ idem.stage = 0
    /\ iter_density < MaxPrior
    /\ \E decay \in Decays, ffu \in BOOLEAN, ffg \in BOOLEAN,
          sigmas \in GridFields :
          \E sampled \in DrawsNow(ffu) :
              update_extra_state(decay, ffu, ffg, sigmas, sampled)
    /\ UNCHANGED <<shVars, pdfVars, runVars, idem, renderVars, extraVars>>

IdemInitialize ==
    /\ idem.stage = 0
    /\ iter_density < MaxPrior
    /\ \E first \in GridFields, rest \in GridFields :
          initialize_states(first, rest)
    /\ UNCHANGED <<shVars, pdfVars, runVars, idem, renderVars, extraVars>>

IdemMark ==
    /\ idem.stage = 0
    /\ \E seen \in SUBSET Cells : mark_untrained_grid(seen)
    /\ UNCHANGED <<shVars, pdfVars, runVars, idem, renderVars, extraVars>>

IdemFirst ==
    /\ idem.stage = 0
    /\ \E ffu \in BOOLEAN, ffg \in BOOLEAN, sigmas \in [Cells -> GridSigmas] :
          \E sampled \in DrawsNow(ffu) :
              /\ update_extra_state(0, ffu, ffg, sigmas, sampled)
              /\ idem' = [stage |-> 1,
                          force_full_update |-> ffu,
                          force_full_grid |-> ffg,
                          sigmas |-> sigmas,
                          tmp_grid |-> TmpGridNow(ffu, sigmas, sampled),
                          grid |-> density_grid']
    /\ UNCHANGED <<shVars, pdfVars, runVars, renderVars, extraVars>>

IdemSecond ==
    /\ idem.stage = 1
    /\ \E sampled \in DrawsNow(idem.force_full_update) :
          /\ TmpGridNow(idem.force_full_update, idem.sigmas, sampled)
                = idem.tmp_grid
          /\ update_extra_state(0, idem.force_full_update,
                                idem.force_full_grid, idem.sigmas, sampled)
    /\ idem' = [idem EXCEPT !.stage = 2]
    /\ UNCHANGED <<shVars, pdfVars, runVars, renderVars, extraVars>>

IdemNext ==
    IdemPriorUpdate \/ IdemInitialize \/ IdemMark \/ IdemFirst \/ IdemSecond

\* C8: with decay = 0, the same sampled values and the same force flags,
\* the second update leaves the density grid as the first one left it.
C8_UpdateIdempotent ==
    idem.stage = 2 => density_grid = idem.grid

\* A partial update on a grid with an untrained and an occupied cell has
\* been repeated, and the first application had changed the grid.
C8_Witness ==
    /\ idem.stage = 2
    /\ ~idem.force_full_update
    /\ iter_density > INIT_UPDATES
    /\ \E c \in Cells : idem.tmp_grid[c] = Untrained
    /\ \E c \in Cells : idem.tmp_grid[c] > 0
    /\ \E c \in Cells : density_grid[c] < 0
    /\ \E c \in Cells : density_grid[c] > 0


-----------------------------------------------------------------------------
(***************************************************************************)
(* The grid operations with the last update_extra_state observed: observed *)
(* holds the number of updates made since construction or the last         *)
(* reset_extra_state, and the arguments, the cells sampled and the         *)
(* tmp_grid of the last update.  The field may return a negative density.  *)
(***************************************************************************)

\* updates observed in a row before and after initialize_states (SpecUpdate)
MaxObserved == 1

\* densities the field returns: -0.5, 0, 1
UpdSigmas == {-(GridOne \div 2), 0, GridOne}
UpdFields ==
    {[c \in Cells |-> IF c = 0 THEN a ELSE b] :
        a \in UpdSigmas, b \in UpdSigmas}

\* update_extra_state, observed
ObservedUpdate(decays, fields) ==
    \E decay \in decays, ffu \in BOOLEAN, ffg \in BOOLEAN,
       sigmas \in fields :
          \E sampled \in DrawsNow(ffu) :
              /\ update_extra_state(decay, ffu, ffg, sigmas, sampled)
              /\ observed' = [n |-> observed.n + 1,
                              seen |-> TRUE,
                              decay |-> decay,
                              force_full_update |-> ffu,
                              force_full_grid |-> ffg,
                              sampled |-> sampled,
                              tmp_grid |-> TmpGridNow(ffu, sigmas, sampled)]

\* The other grid operations; the last update is no longer the last call.
ObservedMark(seens) ==
    /\ \E seen \in seens : mark_untrained_grid(seen)
    /\ observed' = [n |-> observed.n, seen |-> FALSE]

ObservedReset ==
    /\ reset_extra_state
    /\ observed' = ObsNone

ObservedInitialize(fields) ==
    /\ \E first \in fields, rest \in fields :
          initialize_states(first, rest)
    /\ observed' = [n |-> observed.n + INIT_UPDATES, seen |-> FALSE]

\* What the observed grid operations leave alone.
othersOfObserved == <<shVars, pdfVars, runVars, idem, renderVars, training,
                      train_log, mergeVars>>

\* SpecUpdate: every decay and the fields with negative densities, a few
\* updates before and after initialize_states.
UpdUpdate ==
    /\ \/ iter_density < MaxObserved
       \/ /\ iter_density >= INIT_UPDATES
          /\ iter_density < INIT_UPDATES + MaxObserved
    /\ ObservedUpdate(Decays, UpdFields)
    /\ UNCHANGED othersOfObserved
UpdMark ==
    /\ ObservedMark({Cells \ {c} : c \in {0, grid_cells - 1}})
    /\ UNCHANGED othersOfObserved
UpdReset ==
    /\ ObservedReset
    /\ UNCHANGED othersOfObserved
UpdInitialize ==
    /\ ObservedInitialize({f \in UpdFields : \A c \in Cells : f[c] >= 0})
    /\ UNCHANGED othersOfObserved
UpdNext == UpdUpdate \/ UpdMark \/ UpdReset \/ UpdInitialize

\* SpecWarmup: updates one after the other through the 16 warm-up updates.
WarmUpdate ==
    /\ ObservedUpdate({GridOne}, GridFields)
    /\ UNCHANGED othersOfObserved
WarmMark ==
    /\ ObservedMark({Cells \ {0}})
    /\ UNCHANGED othersOfObserved
WarmReset ==
    /\ ObservedReset
    /\ UNCHANGED othersOfObserved
WarmInitialize ==
    /\ ObservedInitialize(GridFields)
    /\ UNCHANGED othersOfObserved
WarmNext == WarmUpdate \/ WarmMark \/ WarmReset \/ WarmInitialize

\* The step just made is an update_extra_state call.
UpdatedNow == last_call'.op = "update_extra_state" /\ observed'.seen

\* C11: an update_extra_state call without force_full_grid leaves in every
\* cell max(old * decay, sampled) when the old value is >= 0 and the cell
\* was sampled with a value >= 0, and the old value otherwise.
C11_CombineRule ==
    [][UpdatedNow /\ ~observed'.force_full_grid =>
          \A c \in Cells :
              density_grid'[c] =
                  IF /\ density_grid[c] >= 0
                     /\ c \in observed'.sampled
                     /\ observed'.tmp_grid[c] >= 0
                  THEN Max((density_grid[c] * observed'.decay) \div GridOne,
                           observed'.tmp_grid[c])
                  ELSE density_grid[c]]_vars

\* C11's case: a partial update with decay below 1 and without
\* force_full_grid has left a positive cell it did not sample, a cell it
\* sampled with a negative density, and an untrained cell.
C11_Witness ==
    /\ last_call.op = "update_extra_state"
    /\ observed.seen
    /\ ~observed.force_full_grid
    /\ observed.decay < GridOne
    /\ \E c \in Cells \ observed.sampled : density_grid[c] > 0
    /\ \E c \in observed.sampled : observed.tmp_grid[c] < 0
    /\ \E c \in Cells : density_grid[c] = Untrained

\* C12: iter_density is the number of updates made since construction or
\* the last reset_extra_state, and an update samples every cell exactly
\* when force_full_update is set or fewer than 16 updates were made before
\* it; mark_untrained_grid leaves the count alone.
C12_FullIffWarmupOrForced ==
    /\ iter_density = observed.n
    /\ last_call.op = "update_extra_state" /\ observed.seen =>
          (observed.sampled = Cells
              <=> (observed.force_full_update \/ observed.n - 1 < 16))

\* C12's case: the seventeenth update since construction, not forced, was
\* a partial one.
C12_Witness ==
    /\ last_call.op = "update_extra_state"
    /\ observed.seen
    /\ observed.n = 17
    /\ ~observed.force_full_update
    /\ observed.sampled # Cells

\* C13: the bitfield is the one packed from the current density grid at
\* the threshold min(mean_density, density_thresh), after every sequence of
\* grid operations.
C13_BitfieldPackedFromGrid ==
    last_call.op # "idle" =>
        density_bitfield = PackBits(density_grid, mean_density)

-----------------------------------------------------------------------------
(***************************************************************************)
(* renderer.py: NeRFRenderer.render and the inference branch of run_cuda.  *)
(*                                                                         *)
(* A ray is [far, sigma, cell]: it starts at nears = 0, leaves the bound   *)
(* after far sub-steps (far = 0: it misses the bound), the field gives it  *)
(* the density sigma (in units of ln 2 per sub-step) and the colour 0, and *)
(* its samples lie in the grid cell cell.  The kernels of the raymarching  *)
(* extension (march_rays, composite_rays, compact_rays) are not part of    *)
(* the sources; they are modelled from the specification.                  *)
(***************************************************************************)

\* Bounds: rays in a batch, max_steps, max_ray_batch
MaxRays == 2
MaxSteps == 3
MaxRayBatch == 2
\* updates of the grid before (and, in SpecThreads, during) the render calls
MaxGen == 1

RayFars == {0, 1, 3}
RaySigmas == {0, 1, SatExp}
RayCells == {0, 1}
\* The rays tried: a ray that misses the bound needs no density, and one
\* kind of ray through the cell that no update fills is enough.
Rays == {r \in [far : RayFars, sigma : RaySigmas, cell : RayCells] :
            /\ (r.far = 0 => r.sigma = 0)
            /\ (r.cell # 0 => r.far = 3 /\ r.sigma = 1)}

\* The fixed-point one of weights_sum, depth and image.
TOne == Pow(2, 4)
\* the termination epsilon of composite_rays, 1e-4 = 1 / TERM_EPS_INV
TERM_EPS_INV == 10000
\* mask = weights_sum > .95
MASK_PERCENT == 95
\* bg_color = 1
BgColor == TOne
\* the upper clamp of n_step
MAX_N_STEP == 8

\* march_rays for one ray at distance t: the distances of the samples of
\* the next n_step sub-steps.  A sub-step yields a sample while t < far and
\* the cell of the ray is occupied; an empty cell is skipped to far.
MarchSamples(ray, t, n_step, bitfield) ==
    IF bitfield[ray.cell]
    THEN {u \in t..(t + n_step - 1) : u < ray.far}
    ELSE {}

RECURSIVE CompositeFrom(_, _, _, _)
\* composite_rays for one ray: acc = [ws, depth, image, k] after the
\* samples at distances u, u+1, ... below stop; it ends early (the ray is
\* terminated) once the remaining transmittance is at most the epsilon.
CompositeFrom(ray, u, stop, acc) ==
    IF u >= stop \/ (TOne - acc.ws) * TERM_EPS_INV <= TOne
    THEN acc
    ELSE LET alpha  == IF ray.sigma >= SatExp
                       THEN TOne ELSE TOne - TOne \div Pow(2, ray.sigma)
             T      == TOne - acc.ws
             weight == (alpha * T) \div TOne
         IN  CompositeFrom(ray, u + 1, stop,
                           [ws |-> acc.ws + weight,
                            depth |-> acc.depth + weight * u,
                            image |-> acc.image,
                            k |-> acc.k + 1])

\* The outcome of march_rays + field query + composite_rays for one ray:
\* the accumulators, the new distance, and whether the ray stays alive
\* (all n_step sub-steps gave a sample and transmittance remains).
MarchComposite(ray, t, n_step, bitfield, ws, d, im) ==
    LET smp  == MarchSamples(ray, t, n_step, bitfield)
        stop == t + Cardinality(smp)
        acc  == CompositeFrom(ray, t, stop,
                              [ws |-> ws, depth |-> d, image |-> im, k |-> 0])
    IN  [ws |-> acc.ws, depth |-> acc.depth, image |-> acc.image,
         taken |-> acc.k,
         alive |-> /\ acc.k = n_step
                   /\ (TOne - acc.ws) * TERM_EPS_INV > TOne,
         t |-> t + acc.k]

\* compact_rays(n_alive, new, old, ...): the entries of old[0..n_alive-1]
\* that are >= 0, in order
RECURSIVE CompactSeq(_, _)
CompactSeq(old, n) ==
    IF n <= 0 THEN <<>>
    ELSE LET r == CompactSeq(old, n - 1)
         IN  IF old[n - 1] >= 0 THEN Append(r, n - 1) ELSE r

\* alive_counter.zero_()
ZeroCounterSkipped(c) == c
ZeroCounter(c) == 0

\* the loop test: while step < max_steps
LoopTest(st, ms) == st < ms

\* exit loop: if n_alive <= 0: break
LoopBreakOnNegative(na) == na < 0
LoopBreak(na) == na <= 0

\* n_step = max(min(N // n_alive, 8), 1)
NStep(n, na) == Max(Min(n \div na, MAX_N_STEP), 1)

\* step += n_step
StepAdvance(st, n_step) == st + n_step

\* tail = min(head + max_ray_batch, N)
ChunkTail(hd, mrb, n) == Min(hd + mrb, n)

\* head += max_ray_batch
NextHeadSkipping(hd, mrb) == hd + mrb + 1
NextHead(hd, mrb) == hd + mrb

\* compact_rays(n_alive, rays_alive[i % 2], rays_alive[(i + 1) % 2], ...):
\* the buffer written and the buffer read
NewBuffer(it) == it % 2
OldBuffer(it) == (it + 1) % 2

\* march_rays(n_alive, n_step, rays_alive[i % 2], ...) and composite_rays
MarchBufferOther(it) == (it + 1) % 2
MarchBuffer(it) == it % 2

None == [called |-> FALSE]
Idx(n) == 0 .. (n - 1)
Zeros(n) == [k \in Idx(n) |-> 0]
Empty == [filled |-> FALSE]
\* No worklist buffer filled or marched.
WorkNone == [filled |-> [b \in 0..1 |-> -1],
             positions |-> [b \in 0..1 |-> {}],
             marched |-> [b \in 0..1 |-> -1],
             read |-> -1,
             last |-> -1]

\* Before any render call: a batch of rays and the keyword arguments.
RenderInit ==
    /\ \E n \in 0..MaxRays : rays \in [Idx(n) -> Rays]
    /\ max_steps \in 0..MaxSteps
    /\ max_ray_batch \in 1..MaxRayBatch
    /\ pc = "idle"
    /\ staged = FALSE
    /\ head = 0
    /\ tail = 0
    /\ results = <<>>
    /\ N = 0
    /\ n_alive = 0
    /\ alive_counter = 0
    /\ rays_alive = <<>>
    /\ rays_t = <<>>
    /\ step = 0
    /\ loop_i = 0
    /\ weights_sum = <<>>
    /\ depth = <<>>
    /\ image = <<>>
    /\ gens_read = {}
    /\ samples = <<>>
    /\ alive_before = 0
    /\ finished = [sg \in BOOLEAN |-> None]
    /\ worklog = WorkNone
    /\ chunks = <<>>

RenderIdle ==
    /\ rays = <<>>
    /\ max_steps = 0
    /\ max_ray_batch = 1
    /\ pc = "off"
    /\ staged = FALSE
    /\ head = 0
    /\ tail = 0
    /\ results = <<>>
    /\ N = 0
    /\ n_alive = 0
    /\ alive_counter = 0
    /\ rays_alive = <<>>
    /\ rays_t = <<>>
    /\ step = 0
    /\ loop_i = 0
    /\ weights_sum = <<>>
    /\ depth = <<>>
    /\ image = <<>>
    /\ gens_read = {}
    /\ samples = <<>>
    /\ alive_before = 0
    /\ finished = <<>>
    /\ worklog = WorkNone
    /\ chunks = <<>>

\* The rays of the batch: N of render
NRays == Cardinality(DOMAIN rays)

\* run_cuda up to the branch on self.training (line 344) and, in inference,
\* up to the loop (lines 398-415), on the rays h .. tl-1
RunCudaEnter(h, tl) ==
    /\ N' = tl - h
    /\ weights_sum' = Zeros(tl - h)
    /\ depth' = Zeros(tl - h)
    /\ image' = Zeros(tl - h)
    /\ n_alive' = tl - h
    /\ alive_counter' = 0
    /\ rays_alive' = [b \in 0..1 |-> Zeros(tl - h)]
    /\ rays_t' = [b \in 0..1 |-> Zeros(tl - h)]
    /\ step' = 0
    /\ loop_i' = 0
    /\ alive_before' = tl - h
    /\ worklog' = WorkNone
    /\ pc' = IF training THEN "train" ELSE "while"

\* What the render call returns.
Returned(res) == [called |-> TRUE, results |-> res, gens |-> gens_read,
                  samples |-> samples]

\* render(rays_o, rays_d, force_staged = sg, max_ray_batch, max_steps):
\* lines 596-610, and for a call that is not staged the entry of _run
render(sg) ==
    /\ pc = "idle"
    /\ ~finished[sg].called
    /\ staged' = sg
    /\ results' = [r \in Idx(NRays) |-> Empty]
    /\ gens_read' = {}
    /\ samples' = Zeros(NRays)
    /\ chunks' = <<>>
    /\ head' = 0
    /\ IF sg
       THEN /\ pc' = "chunk"
            /\ UNCHANGED <<tail, N, n_alive, alive_counter, rays_alive, rays_t,
                           step, loop_i, weights_sum, depth, image,
                           alive_before, worklog>>
       ELSE /\ tail' = NRays
            /\ RunCudaEnter(0, NRays)
    /\ UNCHANGED <<rays, max_steps, max_ray_batch, finished>>

\* the chunk loop, lines 611-613 and 619-626
render_chunk ==
    /\ pc = "chunk"
    /\ IF head < NRays
       THEN /\ tail' = ChunkTail(head, max_ray_batch, NRays)
            /\ RunCudaEnter(head, tail')
            /\ UNCHANGED finished
       ELSE /\ finished' = [finished EXCEPT ![TRUE] = Returned(results)]
            /\ pc' = "idle"
            /\ UNCHANGED <<tail, N, n_alive, alive_counter, rays_alive, rays_t,
                           step, loop_i, weights_sum, depth, image,
                           alive_before, worklog>>
    /\ UNCHANGED <<rays, max_steps, max_ray_batch, staged, head, results,
                   gens_read, samples, chunks>>

\* The loop test and the count of the alive rays, lines 416-431.
run_cuda_count ==
    /\ pc = "while"
    /\ IF ~LoopTest(step, max_steps)
       THEN /\ pc' = "exit"
            /\ UNCHANGED <<n_alive, alive_counter, rays_alive, rays_t,
                           alive_before, worklog>>
       ELSE /\ alive_before' = n_alive
            /\ IF step = 0
               THEN /\ rays_alive' = [rays_alive EXCEPT
                                         ![0] = [k \in Idx(N) |-> k]]
                    /\ rays_t' = [rays_t EXCEPT ![0] = Zeros(N)]
                    /\ worklog' = [worklog EXCEPT
                                      !.filled[0] = loop_i,
                                      !.positions[0] = Idx(n_alive)]
                    /\ UNCHANGED <<n_alive, alive_counter>>
               ELSE LET new  == NewBuffer(loop_i)
                        old  == OldBuffer(loop_i)
                        c0   == ZeroCounter(alive_counter)
                        kept == CompactSeq(rays_alive[old], Min(n_alive, N))
                        at(k) == kept[k - c0 + 1]
                        written == {k \in Idx(N) :
                                       k >= c0 /\ k - c0 < Len(kept)}
                    IN  /\ rays_alive' = [rays_alive EXCEPT ![new] =
                               [k \in Idx(N) |->
                                   IF k \in written
                                   THEN rays_alive[old][at(k)] ELSE @[k]]]
                        /\ rays_t' = [rays_t EXCEPT ![new] =
                               [k \in Idx(N) |->
                                   IF k \in written
                                   THEN rays_t[old][at(k)] ELSE @[k]]]
                        /\ alive_counter' = c0 + Len(kept)
                        /\ worklog' = [worklog EXCEPT
                                          !.filled[new] = loop_i,
                                          !.positions[new] = written,
                                          !.read = old]
                        /\ n_alive' = alive_counter'
            /\ pc' = IF LoopBreak(n_alive') THEN "exit" ELSE "march"
    /\ UNCHANGED <<rays, max_steps, max_ray_batch, staged, head, tail, results,
                   N, step, loop_i, weights_sum, depth, image, gens_read,
                   samples, finished, chunks>>

\* One march: n_step, march_rays, the field, composite_rays, lines 434-445.
run_cuda_march ==
    /\ pc = "march"
    /\ IF n_alive = 0
       THEN \* N // n_alive raises ZeroDivisionError
            /\ pc' = "raised"
            /\ UNCHANGED <<rays_alive, rays_t, step, loop_i, weights_sum,
                           depth, image, gens_read, samples, worklog>>
       ELSE LET n_step == NStep(N, n_alive)
                cur    == MarchBuffer(loop_i)
                work   == {k \in Idx(Min(n_alive, N)) : rays_alive[cur][k] >= 0}
                on(r)  == \E k \in work : rays_alive[cur][k] = r
                at(r)  == CHOOSE k \in work : rays_alive[cur][k] = r
                mc(k)  == LET r == rays_alive[cur][k]
                          IN  MarchComposite(rays[head + r], rays_t[cur][k],
                                             n_step, density_bitfield,
                                             weights_sum[r], depth[r], image[r])
            IN  /\ weights_sum' = [r \in Idx(N) |->
                       IF on(r) THEN mc(at(r)).ws ELSE weights_sum[r]]
                /\ depth' = [r \in Idx(N) |->
                       IF on(r) THEN mc(at(r)).depth ELSE depth[r]]
                /\ image' = [r \in Idx(N) |->
                       IF on(r) THEN mc(at(r)).image ELSE image[r]]
                /\ rays_alive' = [rays_alive EXCEPT ![cur] =
                       [k \in Idx(N) |->
                           IF k \in work /\ ~mc(k).alive THEN -1 ELSE @[k]]]
                /\ rays_t' = [rays_t EXCEPT ![cur] =
                       [k \in Idx(N) |->
                           IF k \in work /\ mc(k).alive THEN mc(k).t ELSE @[k]]]
                /\ samples' = [q \in Idx(NRays) |->
                       IF q >= head /\ q < tail /\ on(q - head)
                       THEN samples[q] + mc(at(q - head)).taken
                       ELSE samples[q]]
                /\ gens_read' = gens_read \cup {iter_density}
                /\ worklog' = [worklog EXCEPT !.marched[cur] = loop_i,
                                              !.last = cur]
                /\ step' = StepAdvance(step, n_step)
                /\ loop_i' = loop_i + 1
                /\ pc' = "while"
    /\ UNCHANGED <<rays, max_steps, max_ray_batch, staged, head, tail, results,
                   N, n_alive, alive_counter, alive_before, finished, chunks>>

\* image, mask and the return of run_cuda (lines 447-458), and what render
\* does with it (lines 614-617, or 624-626)
run_cuda_return ==
    /\ pc = "exit"
    /\ results' = [q \in Idx(NRays) |->
          IF q >= head /\ q < tail
          THEN [filled |-> TRUE,
                depth |-> depth[q - head],
                image |-> image[q - head]
                          + ((TOne - weights_sum[q - head]) * BgColor) \div TOne,
                mask |-> weights_sum[q - head] * 100 > MASK_PERCENT * TOne]
          ELSE results[q]]
    /\ IF staged
       THEN /\ head' = NextHead(head, max_ray_batch)
            /\ chunks' = Append(chunks, [head |-> head, tail |-> tail])
            /\ pc' = "chunk"
            /\ UNCHANGED finished
       ELSE /\ finished' = [finished EXCEPT ![FALSE] = Returned(results')]
            /\ pc' = "idle"
            /\ UNCHANGED <<head, chunks>>
    /\ UNCHANGED <<rays, max_steps, max_ray_batch, staged, tail, N, n_alive,
                   alive_counter, rays_alive, rays_t, step, loop_i, weights_sum,
                   depth, image, gens_read, samples, alive_before>>
    /\ worklog' = WorkNone

othersOfRender == <<shVars, pdfVars, runVars, idem, extraVars>>

RenderPlain == render(FALSE) /\ UNCHANGED <<othersOfRender, gridVars>>
RenderStaged == render(TRUE) /\ UNCHANGED <<othersOfRender, gridVars>>
RenderChunk == render_chunk /\ UNCHANGED <<othersOfRender, gridVars>>
RunCudaCount == run_cuda_count /\ UNCHANGED <<othersOfRender, gridVars>>
RunCudaMarch == run_cuda_march /\ UNCHANGED <<othersOfRender, gridVars>>
RunCudaReturn == run_cuda_return /\ UNCHANGED <<othersOfRender, gridVars>>

\* The training loop updates the grid before the batch is rendered.
RenderAfterUpdate ==
    /\ pc = "idle"
    /\ \A sg \in BOOLEAN : ~finished[sg].called
    /\ iter_density < MaxGen
    /\ \E sigmas \in GridFields :
          update_extra_state(0, TRUE, TRUE, sigmas, Cells)
    /\ UNCHANGED <<othersOfRender, renderVars>>

\* Another thread updates the grid while the render call is running: the
\* update completes between two iterations of the marching loop.
ThreadUpdate ==
    /\ pc = "while"
    /\ iter_density < MaxGen + 1
    /\ \E sigmas \in GridFields :
          update_extra_state(0, TRUE, TRUE, sigmas, Cells)
    /\ UNCHANGED <<othersOfRender, renderVars>>

RenderNext ==
    \/ RenderPlain
    \/ RenderStaged
    \/ RenderChunk
    \/ RunCudaCount
    \/ RunCudaMarch
    \/ RunCudaReturn
    \/ RenderAfterUpdate

ThreadsNext == RenderNext \/ ThreadUpdate

\* The rays of the chunk in flight all start inside the bound: near < far.
ChunkInsideBound == \A q \in head .. (tail - 1) : rays[q].far > 0

\* Both render calls have returned, and every march of both read the same
\* generation of the bitfield.
BothReturned ==
    /\ finished[FALSE].called
    /\ finished[TRUE].called
    /\ Cardinality(finished[FALSE].gens \cup finished[TRUE].gens) <= 1

\* C1: the chunked render call returns, for every ray, the depth, image and
\* mask that the render call without chunking returns for the same batch,
\* max_steps and bitfield.
C1_ChunkedEqualsUnchunked ==
    BothReturned => finished[TRUE].results = finished[FALSE].results

C4_LoopTerminates ==
    /\ pc # "raised"
    /\ pc \in {"while", "march", "exit"} =>
          loop_i <= step /\ loop_i <= max_steps
    /\ pc = "march" => n_alive > 0 /\ step < max_steps

\* C4's cases: the loop left by the break of an empty batch, and the loop
\* left by the budget after max_steps marches.
C4_Witness ==
    \/ pc = "exit" /\ N = 0 /\ max_steps > 0 /\ loop_i = 0
    \/ pc = "exit" /\ loop_i = max_steps /\ max_steps >= 2 /\ n_alive > 0

\* C5: a ray gets the same number of samples and the same depth and
\* weights_sum from the run_cuda call on its chunk as from the run_cuda call
\* on the whole batch, max_steps and bitfield being the same.
C5_RayIndependentOfBatch ==
    /\ pc = "exit"
    /\ staged
    /\ finished[FALSE].called
    /\ finished[FALSE].gens \cup gens_read = {iter_density}
    => \A q \in head .. (tail - 1) :
          /\ samples[q] = finished[FALSE].samples[q]
          /\ depth[q - head] = finished[FALSE].results[q].depth
          /\ weights_sum[q - head] =
                TOne - finished[FALSE].results[q].image

\* C7: the marches of one render call all read the same generation of the
\* bitfield.
C7_OneGenerationPerRender == Cardinality(gens_read) <= 1

\* C17: in the inference loop every iteration marches and composites the
\* buffer i mod 2, which was filled in that same iteration (initialised in the
\* first, compacted into in later ones) at exactly the positions
\* 0 .. n_alive-1, every one of them holding an alive ray of the batch; the
\* compaction of iteration i read the other buffer, which is the one the march
\* of iteration i-1 updated.
C17_MarchesBufferJustFilled ==
    /\ pc = "march" =>
          /\ worklog.filled[loop_i % 2] = loop_i
          /\ worklog.positions[loop_i % 2] = Idx(n_alive)
          /\ \A k \in Idx(n_alive) :
                 /\ rays_alive[loop_i % 2][k] \in Idx(N)
                 /\ \A k2 \in Idx(n_alive) :
                        rays_alive[loop_i % 2][k2] = rays_alive[loop_i % 2][k]
                            => k2 = k
          /\ loop_i > 0 =>
                 /\ worklog.read = (loop_i + 1) % 2
                 /\ worklog.marched[(loop_i + 1) % 2] = loop_i - 1
    /\ (pc \in {"while", "exit"} /\ loop_i > 0) =>
          /\ worklog.last = (loop_i - 1) % 2
          /\ worklog.marched[(loop_i - 1) % 2] = loop_i - 1
          /\ worklog.filled[(loop_i - 1) % 2] = loop_i - 1

\* the third iteration marches a worklist that compaction shortened
C17_Witness ==
    /\ pc = "march"
    /\ loop_i >= 2
    /\ n_alive < N
    /\ worklog.read = 1
    /\ worklog.marched[1] = 1

\* how often the staged call wrote output entry q (lines 614-616)
Writes(q) == Cardinality({j \in 1..Len(chunks) :
                             q >= chunks[j].head /\ q < chunks[j].tail})

\* C18: in a staged render with max_ray_batch >= 1 the chunks [head, tail)
\* start at 0, each begins where the one before ended, each has between 1 and
\* max_ray_batch rays and none reaches beyond N; head grows with every chunk,
\* so the loop ends after at most N chunks; no output entry is written twice,
\* and when the call returns every entry 0..N-1 was written exactly once.
C18_ChunksPartitionRays ==
    (staged /\ pc # "off") =>
        /\ max_ray_batch >= 1
        /\ Len(chunks) <= NRays
        /\ \A j \in 1..Len(chunks) :
               /\ chunks[j].head = IF j = 1 THEN 0 ELSE chunks[j - 1].tail
               /\ chunks[j].tail - chunks[j].head >= 1
               /\ chunks[j].tail - chunks[j].head <= max_ray_batch
               /\ chunks[j].tail <= NRays
        /\ \A q \in Idx(NRays) :
               /\ Writes(q) <= 1
               /\ results[q].filled <=> Writes(q) = 1
        /\ pc = "chunk" =>
               head = IF chunks = <<>> THEN 0
                      ELSE chunks[Len(chunks)].head + max_ray_batch
        /\ pc = "idle" =>
               /\ finished[TRUE].called
               /\ \A q \in Idx(NRays) :
                      /\ Writes(q) = 1
                      /\ finished[TRUE].results[q].filled

\* a staged call that needed two chunks has returned
C18_Witness ==
    /\ staged
    /\ pc = "idle"
    /\ finished[TRUE].called
    /\ Len(chunks) = 2
    /\ chunks[2].tail = NRays

-----------------------------------------------------------------------------
(***************************************************************************)
(* renderer.py: the training branch of run_cuda, sample, and the step      *)
(* counter.  train_log holds, for the render or sample call in flight or   *)
(* just made, the mode, local_step at its start and the slots it wrote;    *)
(* the number of run_cuda and sample calls made in training mode since the *)
(* last update, reset or construction, and the slots they wrote; and what  *)
(* the last update_extra_state found.                                      *)
(***************************************************************************)

\* run_cuda and sample calls between two updates
MaxCalls == 17

LogStart == [logging |-> TRUE, kind |-> "none", mode |-> FALSE, start |-> 0,
             written |-> <<>>, calls |-> 0, fresh |-> {},
             found |-> [calls |-> 0]]

\* march_rays_train on the rays h .. tl-1: the samples of each ray, at most
\* max_steps of them; their total is what the kernel leaves in the counter
TrainSamples(q) ==
    Cardinality(MarchSamples(rays[q], 0, max_steps, density_bitfield))

RECURSIVE TrainCount(_, _)
TrainCount(h, tl) ==
    IF h >= tl THEN 0 ELSE TrainSamples(h) + TrainCount(h + 1, tl)

\* counter = self.step_counter[self.local_step % 16]
CounterSlot(lstep) == lstep % COUNTER_SLOTS

\* The log after a call wrote the slot.
Logged(slot) ==
    [train_log EXCEPT !.written = Append(@, slot),
                      !.calls = @ + 1,
                      !.fresh = @ \cup {slot}]

\* The training branch of run_cuda, lines 344-396.
run_cuda_train ==
    /\ pc = "train"
    /\ train_log.calls < MaxCalls
    /\ LET slot == CounterSlot(local_step)
           mc(r) == MarchComposite(rays[head + r], 0, max_steps,
                                   density_bitfield, 0, 0, 0)
       IN  /\ step_counter' = [step_counter EXCEPT
                                  ![slot] = TrainCount(head, tail)]
           /\ local_step' = local_step + 1
           /\ weights_sum' = [r \in Idx(N) |-> mc(r).ws]
           /\ image' = [r \in Idx(N) |-> mc(r).image]
           \* depth = clamp(depth - nears, min=0) / (fars - nears)
           /\ depth' = [r \in Idx(N) |->
                           IF rays[head + r].far = 0
                           THEN "nan"
                           ELSE mc(r).depth \div rays[head + r].far]
           /\ train_log' = Logged(slot)
    /\ pc' = "exit"
    /\ UNCHANGED <<rays, max_steps, max_ray_batch, staged, head, tail, results,
                   N, n_alive, alive_counter, rays_alive, rays_t, step, loop_i,
                   gens_read, samples, alive_before, finished, chunks, worklog>>
    /\ UNCHANGED <<density_grid, density_bitfield, mean_density, iter_density,
                   mean_count, last_call>>

\* sample, lines 294-317: it writes the slot in either mode.
sample ==
    /\ pc = "idle"
    /\ train_log.calls < MaxCalls
    /\ LET slot == CounterSlot(local_step)
       IN  /\ step_counter' = [step_counter EXCEPT
                                  ![slot] = TrainCount(0, NRays)]
           /\ local_step' = local_step + 1
           /\ train_log' = [Logged(slot) EXCEPT !.kind = "sample",
                                                !.mode = training,
                                                !.start = local_step,
                                                !.written = <<slot>>,
                                                !.found = [calls |-> 0]]
    /\ UNCHANGED renderVars
    /\ UNCHANGED <<density_grid, density_bitfield, mean_density, iter_density,
                   mean_count, last_call>>

othersOfTrain == <<shVars, pdfVars, runVars, idem, observed, mergeVars>>

\* A render call starts: the log of the call is opened.
LogRender ==
    train_log' = [train_log EXCEPT !.kind = "render", !.mode = training,
                                   !.start = local_step, !.written = <<>>,
                                   !.found = [calls |-> 0]]

TrainRenderPlain ==
    /\ render(FALSE)
    /\ LogRender
    /\ UNCHANGED <<othersOfTrain, gridVars, training>>
TrainRenderStaged ==
    /\ render(TRUE)
    /\ LogRender
    /\ UNCHANGED <<othersOfTrain, gridVars, training>>
RunCudaTrain ==
    /\ run_cuda_train
    /\ UNCHANGED <<othersOfTrain, training>>
\* The sample calls are made after the first update of the grid and
\* before the render calls.
TrainSample ==
    /\ training
    /\ iter_density > 0
    /\ \A sg \in BOOLEAN : ~finished[sg].called
    /\ sample
    /\ UNCHANGED <<othersOfTrain, training>>

\* self.eval(): the renders that follow are inference renders.
TrainEval ==
    /\ pc = "idle"
    /\ training
    /\ train_log.calls = 0
    /\ \A sg \in BOOLEAN : ~finished[sg].called
    /\ training' = FALSE
    /\ UNCHANGED <<othersOfTrain, gridVars, renderVars, train_log>>

\* update_extra_state between two calls
TrainUpdate ==
    /\ pc = "idle"
    /\ iter_density < MaxGen + 1
    /\ \E sigmas \in GridFields :
          update_extra_state(GridOne, TRUE, TRUE, sigmas, Cells)
    /\ train_log' = [train_log EXCEPT
                        !.kind = "update", !.calls = 0, !.fresh = {},
                        !.found = [calls |-> train_log.calls,
                                   fresh |-> train_log.fresh,
                                   step_counter |-> step_counter,
                                   mean_count |-> mean_count]]
    /\ UNCHANGED <<othersOfTrain, renderVars, training>>

TrainNext ==
    \/ TrainRenderPlain
    \/ TrainRenderStaged
    \/ RenderChunk
    \/ RunCudaTrain
    \/ RunCudaCount
    \/ RunCudaMarch
    \/ RunCudaReturn
    \/ TrainSample
    \/ TrainEval
    \/ TrainUpdate

\* The batches of SpecTrain: half-dense rays through cell 0, marched with
\* the two largest step budgets.
TrainBatch ==
    /\ \A q \in DOMAIN rays : rays[q].cell = 0 /\ rays[q].sigma = 1
    /\ max_steps >= MaxSteps - 1

InitTrain ==
    /\ RenderInit
    /\ TrainBatch
    /\ GridInit
    /\ ShIdle /\ PdfIdle /\ RunIdle
    /\ idem = IdemNone
    /\ observed = ObsNone
    /\ training = TRUE
    /\ train_log = LogStart
    /\ MergeIdle

\* C14: a render call made in training mode writes exactly one slot of the
\* step counter, slot local_step mod 16, and advances local_step by 1; a
\* render call made in inference mode writes none.
C14_OneSlotPerRender ==
    train_log.logging /\ train_log.kind = "render" /\ pc = "idle" =>
        IF train_log.mode
        THEN /\ train_log.written = <<train_log.start % 16>>
             /\ local_step = train_log.start + 1
        ELSE /\ train_log.written = <<>>
             /\ local_step = train_log.start

-----------------------------------------------------------------------------
(***************************************************************************)
(* renderer.py: NeRFRenderer.run, the merge of the uniform and the         *)
(* resampled samples of one ray (lines 233-242).  A point is the sample it *)
(* was generated for and the distance it was generated from; a density     *)
(* output is the sample it was computed for and the value of the field at  *)
(* its point.                                                              *)
(***************************************************************************)

\* num_steps and upsample_steps
MaxUniform == 2
MaxUpsample == 2

\* xyzs = rays_o + rays_d * z, for sample id
Point(id, z) == [of |-> id, z |-> z]
\* self.density(xyzs): the field is a function of the point
DensityAt(pt) == [of |-> pt.of, sigma |-> pt.z % 2]

\* torch.cat([a, b], dim=1)
Cat(a, b) == a \o b

\* torch.sort(z, dim=1): the orders it may return; equal distances come in
\* any order.  SortFrom(z, rem) orders the indices rem, smallest z first.
RECURSIVE SortFrom(_, _)
SortFrom(z, rem) ==
    IF rem = {}
    THEN {<<>>}
    ELSE UNION {{<<i>> \o p : p \in SortFrom(z, rem \ {i})} :
                   i \in {i \in rem : \A j \in rem : z[i] <= z[j]}}
SortIndices(z) == SortFrom(z, 1..Len(z))

\* torch.gather(seq, dim=1, index)
GatherUnpermuted(seq, index) == seq
Gather(seq, index) == [k \in 1..Len(index) |-> seq[index[k]]]

\* new_xyzs and new_density_outputs, lines 223-231; T uniform samples
NewXyzs(T) == [k \in 1..Len(merge_new_z) |-> Point(T + k, merge_new_z[k])]
NewDensity(T) == [k \in 1..Len(merge_new_z) |-> DensityAt(NewXyzs(T)[k])]

\* The state at line 232: uniform distances in increasing order, resampled
\* distances in any order.
MergeInit ==
    /\ merge_pc = "sampled"
    /\ \E T \in 1..MaxUniform :
          /\ merge_z_vals \in {z \in [1..T -> 0..MaxZ] :
                                  \A k \in 1..(T - 1) : z[k] <= z[k + 1]}
          /\ merge_xyzs = [k \in 1..T |-> Point(k, merge_z_vals[k])]
          /\ merge_density = [k \in 1..T |-> DensityAt(merge_xyzs[k])]
    /\ \E t \in 1..MaxUpsample : merge_new_z \in [1..t -> 0..MaxZ]
    /\ merge_index = <<>>

\* re-order, lines 233-242
run_merge ==
    /\ merge_pc = "sampled"
    /\ LET T == Len(merge_z_vals)
           z == Cat(merge_z_vals, merge_new_z)
       IN  \E z_index \in SortIndices(z) :
              /\ merge_z_vals' = Gather(z, z_index)
              /\ merge_index' = z_index
              /\ merge_xyzs' = Gather(Cat(merge_xyzs, NewXyzs(T)), z_index)
              /\ merge_density' =
                    Gather(Cat(merge_density, NewDensity(T)), z_index)
    /\ merge_pc' = "merged"
    /\ UNCHANGED merge_new_z

MergeNext ==
    /\ run_merge
    /\ UNCHANGED <<shVars, pdfVars, runVars, gridVars, idem, renderVars,
                   observed, training, train_log>>

\* C16: after the merge the distances are in non-decreasing order, every
\* uniform and every resampled sample is there exactly once, and at every
\* position the point is the one generated from the distance at that
\* position and the density output is the one computed for that point.
C16_MergeKeepsAssociation ==
    merge_pc = "merged" =>
        LET n == Len(merge_z_vals)
        IN  /\ n = Len(merge_index)
            /\ \A k \in 1..(n - 1) : merge_z_vals[k] <= merge_z_vals[k + 1]
            /\ \A id \in 1..n :
                  Cardinality({k \in 1..n : merge_xyzs[k].of = id}) = 1
            /\ \A k \in 1..n :
                  /\ merge_xyzs[k].z = merge_z_vals[k]
                  /\ merge_density[k] = DensityAt(merge_xyzs[k])
                  /\ merge_xyzs[k].of > n - Len(merge_new_z) =>
                        merge_new_z[merge_xyzs[k].of - (n - Len(merge_new_z))]
                            = merge_z_vals[k]

\* C16's case: a resampled distance ties with a uniform one and the sort
\* put a resampled sample before a uniform one.
C16_Witness ==
    /\ merge_pc = "merged"
    /\ \E j, k \in 1..Len(merge_z_vals) :
          /\ j < k
          /\ merge_xyzs[j].of > merge_xyzs[k].of
          /\ merge_z_vals[j] = merge_z_vals[k]
    /\ \E k \in 1..Len(merge_index) : merge_index[k] # k

-----------------------------------------------------------------------------
(* Specifications *)

InitSH == ShInit /\ PdfIdle /\ RunIdle /\ GridIdle /\ idem = IdemNone /\ ExtraIdle
    /\ RenderIdle
SpecSH == InitSH /\ [][ShNext]_vars

InitPdf == PdfInit /\ ShIdle /\ RunIdle /\ GridIdle /\ idem = IdemNone /\ ExtraIdle
    /\ RenderIdle
SpecPdf == InitPdf /\ [][PdfNext]_vars

InitRun == RunInit /\ ShIdle /\ PdfIdle /\ GridIdle /\ idem = IdemNone /\ ExtraIdle
    /\ RenderIdle
SpecRun == InitRun /\ [][RunNext]_vars

InitGrid == GridInit /\ ShIdle /\ PdfIdle /\ RunIdle /\ idem = IdemNone /\ ExtraIdle
    /\ RenderIdle
SpecGrid == InitGrid /\ [][GridNext]_vars

SpecIdem == InitGrid /\ [][IdemNext]_vars

SpecUpdate == InitGrid /\ [][UpdNext]_vars

SpecWarmup == InitGrid /\ [][WarmNext]_vars

InitRender == RenderInit /\ GridInit /\ ShIdle /\ PdfIdle /\ RunIdle
    /\ idem = IdemNone /\ ExtraIdle
SpecRender == InitRender /\ [][RenderNext]_vars

SpecThreads == InitRender /\ [][ThreadsNext]_vars

SpecTrain == InitTrain /\ [][TrainNext]_vars

InitMerge ==
    /\ MergeInit
    /\ ShIdle /\ PdfIdle /\ RunIdle /\ GridIdle /\ RenderIdle
    /\ idem = IdemNone
    /\ observed = ObsNone
    /\ training = FALSE
    /\ train_log = LogNone
SpecMerge == InitMerge /\ [][MergeNext]_vars

=============================================================================
